---- MODULE Spec2Model ----
(***************************************************************************)
(* A model of the reaper client: the transport adapter (do), the single-   *)
(* resource operations (GetClusterNames, GetCluster, AddCluster,           *)
(* DeleteCluster) and the concurrent fan-out (GetClusters and its          *)
(* synchronous form GetClustersSync).                                      *)
(*                                                                         *)
(* One behaviour is one call of one operation of the client.  The caller's *)
(* context may be cancelled at any moment.  The HTTP transport is the      *)
(* environment: every request either fails at transport level or returns a *)
(* response whose body is empty, valid JSON or invalid JSON.               *)
(***************************************************************************)
EXTENDS Integers, Sequences, FiniteSets, TLC

\* Largest number of cluster names the service lists.
MaxNames == 3
\* Largest value of runtime.NumCPU() considered (it exceeds the constant 5).
MaxCPU == 6
\* Largest number of source nodes reporting in a status payload.
MaxNodes == 2

Names == 1..MaxNames
NumCPUs == {1, 2, MaxCPU}
Ops == {"GetClusterNames", "GetCluster", "GetClusters", "GetClustersSync",
        "AddCluster", "DeleteCluster"}
CancelReasons == {"context canceled", "context deadline exceeded"}
Seeds == {"", "seed"}
\* What httpClient.Do can come back with: a transport error, or a response
\* whose body is empty, malformed JSON, or JSON of the expected shape.
Outcomes == {"err", "empty", "invalid", "valid"}

VARIABLES
    op,            \* the operation the caller invokes
    arg,           \* its cluster-name argument (0 when it has none)
    numCPU,        \* runtime.NumCPU()
    serverNames,   \* the names the service would list
    payload,       \* the status payload the service holds for a cluster
    translated,    \* newCluster(payload), once computed
    ctxDone,       \* the caller's context is cancelled
    ctxErr,        \* ctx.Err()
    mainPc,        \* position of the calling goroutine
    mreq,          \* the request the calling goroutine issued itself
    ret,           \* what the operation returned
    clusterNames,  \* GetClusters: the names GetClusterNames returned
    listErr,       \* GetClusters: the error GetClusterNames returned
    results,       \* GetClusters: the results channel
    closeCount,    \* number of close(results) executed
    panicked,      \* the process panicked (send on / close of a closed channel)
    wg,            \* GetClusters: the WaitGroup counter
    orchPc,        \* position of the orchestrating goroutine
    orchIdx,       \* its position in the range over clusterNames
    task,          \* the fetch goroutines, by index in clusterNames
    received,      \* every result the consumer has taken from the channel
    clusters       \* GetClustersSync: the clusters accumulated so far

vars == <<op, arg, numCPU, serverNames, payload, translated, ctxDone, ctxErr, mainPc,
          mreq, ret, clusterNames, listErr, results, closeCount, panicked, wg,
          orchPc, orchIdx, task, received, clusters>>

----------------------------------------------------------------------------
\* Errors: the lowest-level failure plus the contexts fmt.Errorf wrapped
\* around it (outermost first).

NoErr == [kind |-> "nil", reason |-> "nil", wrap |-> <<>>]
CtxErr(reason) == [kind |-> "Cancelled", reason |-> reason, wrap |-> <<>>]
TransportErr == [kind |-> "Transport", reason |-> "transport", wrap |-> <<>>]
DecodeErr(reason) == [kind |-> "Decode", reason |-> reason, wrap |-> <<>>]
Errorf(what, name, e) ==
    [e EXCEPT !.wrap = <<[what |-> what, name |-> name]>> \o @]

Min(a, b) == IF a < b THEN a ELSE b

\* concurrency := int(math.Min(5, float64(runtime.NumCPU())))
Concurrency(ncpu) == Min(5, ncpu)

\* http.NewRequest: the request carries the background context.
NewRequest(method, name, query) ==
    [method |-> method, name |-> name, query |-> query, ctx |-> "background"]

\* (*http.Request).WithContext returns a copy; the receiver is unchanged.
WithContext(req, ctx) == [req EXCEPT !.ctx = ctx]

\* httpClient.Do: a request whose own context is cancelled can only fail;
\* otherwise the transport may fail or answer.
HttpDo(req, done) ==
    IF req.ctx = "caller" /\ done THEN {"err"} ELSE Outcomes

\* json.NewDecoder(body).Decode(v)
JsonDecode(body) ==
    CASE body = "valid" -> NoErr
      [] body = "empty" -> DecodeErr("EOF")
      [] OTHER -> DecodeErr("syntax")

\* The select on ctx.Done() after a failed httpClient.Do.
SelectCtxMutant(done, reason) == TransportErr
SelectCtx(done, reason) == IF done THEN CtxErr(reason) ELSE TransportErr

\* The request do hands to httpClient.Do: the result of req.WithContext(ctx)
\* is discarded, so it is the request as built by NewRequest.
SentRequest(req) == req

\* defer resp.Body.Close(): whether the body is still open once the function
\* that obtained the response has returned.
DeferredCloseMutant(open) == open
DeferredClose(open) == FALSE

\* Client.do, given what httpClient.Do came back with.  hasTarget: v != nil.
\* open: the body of the response obtained is still open after the return.
do(done, reason, hasTarget, outcome) ==
    IF outcome = "err"
    THEN [resp |-> "nil", err |-> SelectCtx(done, reason), open |-> FALSE]
    ELSE [resp |-> outcome,
          err |-> IF hasTarget THEN JsonDecode(outcome) ELSE NoErr,
          open |-> DeferredClose(TRUE)]

\* The raw status payloads, with the field names of their JSON form.
\* endpointStatus
RawEndpoint(n) ==
    [endpoint |-> 10 + n, dc |-> 20 + n, rack |-> 30 + n, hostId |-> 40 + n,
     status |-> 50 + n, severity |-> 60 + n, releaseVersion |-> 70 + n,
     tokens |-> 80 + n, load |-> 90 + n]
EndpointLists == {<<>>, <<RawEndpoint(1)>>, <<RawEndpoint(2), RawEndpoint(1)>>}
DataCenterKeys == {"dc1", "dc2"}
RackKeys == {"r1", "r2"}
\* map[string][]endpointStatus and map[string]map[string][]endpointStatus
RackMaps == UNION {[S -> EndpointLists] : S \in SUBSET RackKeys}
\* The second datacenter, when present, has no rack or the one rack "r2".
SmallRackMaps == {m \in RackMaps : DOMAIN m \subseteq {"r2"} /\
                                   \A r \in DOMAIN m : Len(m[r]) = 2}
EndpointMaps ==
    UNION {{m \in [S -> RackMaps] : "dc2" \in S => m["dc2"] \in SmallRackMaps} :
              S \in SUBSET DataCenterKeys}
\* gossipStatus
GossipStatuses ==
    {[sourceNode |-> "n", endpointNames |-> <<"e1", "e2">>, totalLoad |-> 7,
      Endpoints |-> m] : m \in EndpointMaps}
\* []gossipStatus of at most MaxNodes source nodes
NodeLists == UNION {[1..k -> GossipStatuses] : k \in 0..MaxNodes}
\* clusterStatus
Payloads ==
    {[name |-> 1, jmx_username |-> c.user, jmx_password_is_set |-> c.set,
      seed_hosts |-> c.seeds, nodes_status |-> [endpointStates |-> nodes]] :
        c \in {[user |-> "", set |-> FALSE, seeds |-> <<>>],
               [user |-> "jmx", set |-> TRUE, seeds |-> <<"s2", "s1">>]},
        nodes \in NodeLists}
DefaultStatus ==
    [name |-> 1, jmx_username |-> "jmx", jmx_password_is_set |-> TRUE,
     seed_hosts |-> <<"s1">>,
     nodes_status |-> [endpointStates |->
        <<[sourceNode |-> "n", endpointNames |-> <<"e1">>, totalLoad |-> 7,
           Endpoints |-> [dc \in {"dc1"} |->
                            [r \in {"r1"} |-> <<RawEndpoint(1)>>]]]>>]]

\* The payload decoded from a valid body of GET /cluster/{name}.
clusterStatus(name) == [payload EXCEPT !.name = name]

\* The translation of newCluster, innermost first.
EndpointStateOf(ep) ==
    [Endpoint |-> ep.endpoint, DataCenter |-> ep.dc, Rack |-> ep.rack,
     HostId |-> ep.hostId, Status |-> ep.status, Severity |-> ep.severity,
     ReleaseVersion |-> ep.releaseVersion, Tokens |-> ep.tokens,
     Load |-> ep.load]
RackStateOfMutant(rack, endpoints) ==
    [Name |-> rack,
     Endpoints |-> [k \in 1..Len(endpoints) |->
                      EndpointStateOf(endpoints[Len(endpoints) + 1 - k])]]
RackStateOf(rack, endpoints) ==
    [Name |-> rack,
     Endpoints |-> [k \in 1..Len(endpoints) |-> EndpointStateOf(endpoints[k])]]
DataCenterStateOf(dc, dcStateInternal) ==
    [Name |-> dc,
     Racks |-> [rack \in DOMAIN dcStateInternal |->
                  RackStateOf(rack, dcStateInternal[rack])]]
GossipStateOf(gs) ==
    [SourceNode |-> gs.sourceNode, EndpointNames |-> gs.endpointNames,
     TotalLoad |-> gs.totalLoad,
     DataCenters |-> [dc \in DOMAIN gs.Endpoints |->
                        DataCenterStateOf(dc, gs.Endpoints[dc])]]
newCluster(state) ==
    [Name |-> state.name, JmxUsername |-> state.jmx_username,
     JmxPasswordSet |-> state.jmx_password_is_set, Seeds |-> state.seed_hosts,
     NodeState |-> [GossipStates |->
        [i \in 1..Len(state.nodes_status.endpointStates) |->
            GossipStateOf(state.nodes_status.endpointStates[i])]]]
\* A nil *Cluster.
NilCluster ==
    [Name |-> 0, JmxUsername |-> "", JmxPasswordSet |-> FALSE, Seeds |-> <<>>,
     NodeState |-> [GossipStates |-> <<>>]]

GetClusterNamesRet(done, reason, outcome, names) ==
    LET r == do(done, reason, TRUE, outcome)
    IN  IF r.err # NoErr
        THEN [names |-> <<>>, err |-> Errorf("get cluster names", 0, r.err)]
        ELSE [names |-> names, err |-> NoErr]

GetClusterRetMutant(done, reason, outcome, name) ==
    LET r == do(done, reason, TRUE, outcome)
    IN  IF r.err # NoErr
        THEN [Cluster |-> NilCluster, Error |-> Errorf("get cluster", 0, r.err)]
        ELSE [Cluster |-> newCluster(clusterStatus(name)), Error |-> NoErr]
GetClusterRet(done, reason, outcome, name) ==
    LET r == do(done, reason, TRUE, outcome)
    IN  IF r.err # NoErr
        THEN [Cluster |-> NilCluster, Error |-> Errorf("get cluster", name, r.err)]
        ELSE [Cluster |-> newCluster(clusterStatus(name)), Error |-> NoErr]

AddClusterRet(done, reason, outcome) ==
    IF outcome = "err" THEN SelectCtx(done, reason) ELSE NoErr

\* Whether AddCluster leaves the body of its response open.
AddClusterOpen(outcome) ==
    IF outcome = "err" THEN FALSE ELSE DeferredClose(TRUE)

\* Whether the operation leaves the body of its response open.
RespOpen(o, done, reason, outcome) ==
    IF o = "AddCluster" THEN AddClusterOpen(outcome)
    ELSE do(done, reason, o # "DeleteCluster", outcome).open

DeleteClusterRet(done, reason, outcome, name) ==
    LET r == do(done, reason, FALSE, outcome)
    IN  IF r.err # NoErr THEN Errorf("delete cluster", name, r.err) ELSE NoErr

----------------------------------------------------------------------------
NilResult == [Cluster |-> NilCluster, Error |-> NoErr]
IdleTask == [pc |-> "idle", outcome |-> "none", res |-> NilResult,
             open |-> FALSE]
NoReq == [req |-> NewRequest("none", 0, ""), ctxAtIssue |-> FALSE,
          outcome |-> "none", open |-> FALSE]
NoRet == [list |-> <<>>, listNil |-> TRUE, cluster |-> NilCluster,
          err |-> NoErr]

FanOutOps == {"GetClusters", "GetClustersSync"}
NamedOps == {"GetCluster", "AddCluster", "DeleteCluster"}

InitCall ==
    /\ op \in Ops
    /\ arg \in (IF op \in NamedOps THEN Names ELSE {0})
    /\ numCPU \in (IF op \in FanOutOps THEN NumCPUs ELSE {1})
    /\ \E n \in 0..MaxNames :
          /\ op \in NamedOps => n = 0
          /\ serverNames = [i \in 1..n |-> i]
    /\ ctxDone = FALSE
    /\ ctxErr = "nil"
    /\ mainPc = "start"
    /\ mreq = NoReq
    /\ ret = NoRet
    /\ clusterNames = <<>>
    /\ listErr = NoErr
    /\ results = [buf |-> <<>>, closed |-> FALSE, cap |-> 0]
    /\ closeCount = 0
    /\ panicked = FALSE
    /\ wg = 0
    /\ orchPc = "none"
    /\ orchIdx = 1
    /\ task = [i \in Names |-> IdleTask]
    /\ received = <<>>
    /\ clusters = <<>>

Init ==
    /\ InitCall
    /\ payload = DefaultStatus
    /\ translated = NilCluster

fanVars == <<clusterNames, listErr, results, closeCount, panicked, wg, orchPc,
             orchIdx, task, received, clusters>>
envVars == <<op, arg, numCPU, serverNames, payload, translated>>
ctxVars == <<ctxDone, ctxErr>>

FetchCompleted(t) == t.pc \in {"send", "sent", "done"}

\* The caller cancels the context (or its deadline passes).
Cancel(reason) ==
    /\ ~panicked
    /\ ~ctxDone
    /\ mainPc # "returned" \/ orchPc = "loop"
    /\ ctxDone' = TRUE
    /\ ctxErr' = reason
    /\ UNCHANGED <<envVars, mainPc, mreq, ret, fanVars>>

\* close(results); closing a closed channel panics.
CloseResults ==
    /\ closeCount' = closeCount + 1
    /\ IF results.closed
       THEN panicked' = TRUE /\ UNCHANGED results
       ELSE results' = [results EXCEPT !.closed = TRUE] /\ UNCHANGED panicked

\* make(chan GetClusterResult, concurrency)
MakeChanMutant(capacity) == [buf |-> <<>>, closed |-> FALSE, cap |-> 1]
MakeChan(capacity) == [buf |-> <<>>, closed |-> FALSE, cap |-> capacity]

\* The caller enters the operation: everything up to the moment the
\* operation's own request is handed to httpClient.Do.
Call ==
    /\ ~panicked
    /\ mainPc = "start"
    /\ IF op \in FanOutOps
       THEN /\ results' = MakeChan(Concurrency(numCPU))
            /\ mreq' = [req |-> SentRequest(NewRequest("GET", 0, "")),
                        ctxAtIssue |-> ctxDone, outcome |-> "none", open |-> FALSE]
            /\ mainPc' = "listing"
       ELSE /\ \E seed \in (IF op = "AddCluster" THEN Seeds ELSE {""}) :
                mreq' = [req |-> SentRequest(NewRequest(
                                    CASE op = "AddCluster" -> "PUT"
                                      [] op = "DeleteCluster" -> "DELETE"
                                      [] OTHER -> "GET", arg, seed)),
                         ctxAtIssue |-> ctxDone, outcome |-> "none", open |-> FALSE]
            /\ mainPc' = "inflight"
            /\ UNCHANGED results
    /\ UNCHANGED <<envVars, ctxVars, ret, clusterNames, listErr, closeCount,
                   panicked, wg, orchPc, orchIdx, task, received, clusters>>

\* The request of a single-resource operation comes back and the operation
\* returns.
Return(outcome) ==
    /\ ~panicked
    /\ mainPc = "inflight"
    /\ outcome \in HttpDo(mreq.req, ctxDone)
    /\ mreq' = [mreq EXCEPT !.outcome = outcome,
                            !.open = RespOpen(op, ctxDone, ctxErr, outcome)]
    /\ mainPc' = "returned"
    /\ ret' =
         CASE op = "GetClusterNames" ->
                LET r == GetClusterNamesRet(ctxDone, ctxErr, outcome, serverNames)
                IN  [NoRet EXCEPT !.list = r.names,
                                  !.listNil = (r.err # NoErr), !.err = r.err]
           [] op = "GetCluster" ->
                LET r == GetClusterRet(ctxDone, ctxErr, outcome, arg)
                IN  [NoRet EXCEPT !.cluster = r.Cluster, !.err = r.Error]
           [] op = "AddCluster" ->
                [NoRet EXCEPT !.err = AddClusterRet(ctxDone, ctxErr, outcome)]
           [] OTHER ->
                [NoRet EXCEPT !.err = DeleteClusterRet(ctxDone, ctxErr, outcome, arg)]
    /\ UNCHANGED <<envVars, ctxVars, fanVars>>

----------------------------------------------------------------------------
\* GetClusters

\* GetClusterNames failed: close(results); return results.
ListFailedMutant(r) ==
    /\ listErr' = r.err
    /\ clusterNames' = r.names
    /\ orchPc' = "loop"
    /\ CloseResults
ListFailed(r) ==
    /\ listErr' = r.err
    /\ clusterNames' = r.names
    /\ CloseResults
    /\ UNCHANGED orchPc

\* GetClusterNames succeeded: start the orchestrating goroutine and return
\* the channel.
ListOk(r) ==
    /\ listErr' = NoErr
    /\ clusterNames' = r.names
    /\ orchPc' = "loop"
    /\ UNCHANGED <<results, closeCount, panicked>>

\* GetClusterNames comes back inside GetClusters, which then returns the
\* channel to its consumer.
Listed(outcome) ==
    /\ ~panicked
    /\ mainPc = "listing"
    /\ outcome \in HttpDo(mreq.req, ctxDone)
    /\ mreq' = [mreq EXCEPT !.outcome = outcome,
                            !.open = RespOpen("GetClusterNames", ctxDone,
                                              ctxErr, outcome)]
    /\ LET r == GetClusterNamesRet(ctxDone, ctxErr, outcome, serverNames)
       IN  IF r.err # NoErr THEN ListFailed(r) ELSE ListOk(r)
    /\ mainPc' = "consuming"
    /\ UNCHANGED <<envVars, ctxVars, ret, wg, orchIdx, task, received, clusters>>

\* One iteration of the range loop: wg.Add(1); go func(name) {...}(clusterName)
SpawnMutant ==
    /\ ~panicked
    /\ orchPc = "loop"
    /\ orchIdx <= Len(clusterNames)
    /\ task' = [task EXCEPT ![orchIdx].pc = "ready"]
    /\ orchIdx' = orchIdx + 1
    /\ UNCHANGED <<envVars, ctxVars, mainPc, mreq, ret, clusterNames, listErr,
                   results, closeCount, panicked, wg, orchPc, received, clusters>>
Spawn ==
    /\ ~panicked
    /\ orchPc = "loop"
    /\ orchIdx <= Len(clusterNames)
    /\ wg' = wg + 1
    /\ task' = [task EXCEPT ![orchIdx].pc = "ready"]
    /\ orchIdx' = orchIdx + 1
    /\ UNCHANGED <<envVars, ctxVars, mainPc, mreq, ret, clusterNames, listErr,
                   results, closeCount, panicked, orchPc, received, clusters>>

\* wg.Wait() returns when the counter is zero.
WaitReturnsMutant(counter) == TRUE
WaitReturns(counter) == counter = 0

\* After the loop: wg.Wait(), then the deferred close(results).
WaitAndClose ==
    /\ ~panicked
    /\ orchPc = "loop"
    /\ orchIdx > Len(clusterNames)
    /\ WaitReturns(wg)
    /\ CloseResults
    /\ orchPc' = "done"
    /\ UNCHANGED <<envVars, ctxVars, mainPc, mreq, ret, clusterNames, listErr,
                   wg, orchIdx, task, received, clusters>>

\* A fetch goroutine calls GetCluster, which hands its request to
\* httpClient.Do.
Fetch(i) ==
    /\ ~panicked
    /\ task[i].pc = "ready"
    /\ task' = [task EXCEPT ![i].pc = "inflight"]
    /\ UNCHANGED <<envVars, ctxVars, mainPc, mreq, ret, clusterNames, listErr,
                   results, closeCount, panicked, wg, orchPc, orchIdx,
                   received, clusters>>

\* The request comes back; GetCluster returns; the result is built.
Fetched(i, outcome) ==
    /\ ~panicked
    /\ task[i].pc = "inflight"
    /\ outcome \in HttpDo(SentRequest(NewRequest("GET", clusterNames[i], "")),
                          ctxDone)
    /\ task' = [task EXCEPT
                  ![i].pc = "send",
                  ![i].outcome = outcome,
                  ![i].open = RespOpen("GetCluster", ctxDone, ctxErr, outcome),
                  ![i].res = GetClusterRet(ctxDone, ctxErr, outcome,
                                           clusterNames[i])]
    /\ UNCHANGED <<envVars, ctxVars, mainPc, mreq, ret, clusterNames, listErr,
                   results, closeCount, panicked, wg, orchPc, orchIdx,
                   received, clusters>>

\* results <- result: blocks while the buffer is full; panics on a closed
\* channel.
SendMutant(i) ==
    /\ ~panicked
    /\ task[i].pc = "send"
    /\ IF results.closed
       THEN panicked' = TRUE /\ UNCHANGED <<results, task>>
       ELSE /\ results' = IF Len(results.buf) < results.cap
                          THEN [results EXCEPT !.buf = Append(@, task[i].res)]
                          ELSE results
            /\ task' = [task EXCEPT ![i].pc = "sent"]
            /\ UNCHANGED panicked
    /\ UNCHANGED <<envVars, ctxVars, mainPc, mreq, ret, clusterNames, listErr,
                   closeCount, wg, orchPc, orchIdx, received, clusters>>
Send(i) ==
    /\ ~panicked
    /\ task[i].pc = "send"
    /\ IF results.closed
       THEN panicked' = TRUE /\ UNCHANGED <<results, task>>
       ELSE /\ Len(results.buf) < results.cap
            /\ results' = [results EXCEPT !.buf = Append(@, task[i].res)]
            /\ task' = [task EXCEPT ![i].pc = "sent"]
            /\ UNCHANGED panicked
    /\ UNCHANGED <<envVars, ctxVars, mainPc, mreq, ret, clusterNames, listErr,
                   closeCount, wg, orchPc, orchIdx, received, clusters>>

\* The deferred wg.Done() of a fetch goroutine.
Done(i) ==
    /\ ~panicked
    /\ task[i].pc = "sent"
    /\ wg' = wg - 1
    /\ task' = [task EXCEPT ![i].pc = "done"]
    /\ UNCHANGED <<envVars, ctxVars, mainPc, mreq, ret, clusterNames, listErr,
                   results, closeCount, panicked, orchPc, orchIdx, received,
                   clusters>>

----------------------------------------------------------------------------
\* The consumer of the channel.

\* The body of GetClustersSync's range loop for one received result.
SyncOnResultMutant(acc, result) ==
    IF result.Error # NoErr
    THEN [returned |-> TRUE, clusters |-> acc,
          ret |-> [NoRet EXCEPT !.list = acc, !.listNil = FALSE,
                                !.err = result.Error]]
    ELSE [returned |-> FALSE, clusters |-> Append(acc, result.Cluster),
          ret |-> NoRet]
SyncOnResultSkip(acc, result) ==
    IF result.Error # NoErr
    THEN [returned |-> FALSE, clusters |-> acc, ret |-> NoRet]
    ELSE [returned |-> FALSE, clusters |-> Append(acc, result.Cluster),
          ret |-> NoRet]
SyncOnResult(acc, result) ==
    IF result.Error # NoErr
    THEN [returned |-> TRUE, clusters |-> acc,
          ret |-> [NoRet EXCEPT !.err = result.Error]]
    ELSE [returned |-> FALSE, clusters |-> Append(acc, result.Cluster),
          ret |-> NoRet]

\* The consumer receives one buffered result.  The consumer of GetClusters
\* keeps receiving; GetClustersSync returns on the first error.
Receive ==
    /\ ~panicked
    /\ mainPc = "consuming"
    /\ Len(results.buf) > 0
    /\ results' = [results EXCEPT !.buf = Tail(@)]
    /\ received' = Append(received, Head(results.buf))
    /\ IF op = "GetClustersSync"
       THEN LET s == SyncOnResult(clusters, Head(results.buf))
            IN  /\ clusters' = s.clusters
                /\ ret' = s.ret
                /\ mainPc' = IF s.returned THEN "returned" ELSE "consuming"
       ELSE UNCHANGED <<clusters, ret, mainPc>>
    /\ UNCHANGED <<envVars, ctxVars, mreq, clusterNames, listErr, closeCount,
                   panicked, wg, orchPc, orchIdx, task>>

\* The consumer finds the channel closed and drained: the range loop ends.
ReceiveClosed ==
    /\ ~panicked
    /\ mainPc = "consuming"
    /\ Len(results.buf) = 0
    /\ results.closed
    /\ mainPc' = "returned"
    /\ ret' = IF op = "GetClustersSync"
              THEN [NoRet EXCEPT !.list = clusters, !.listNil = FALSE]
              ELSE ret
    /\ UNCHANGED <<envVars, ctxVars, mreq, fanVars>>

\* The consumer of GetClusters walks away from the channel for good.
Abandon ==
    /\ ~panicked
    /\ op = "GetClusters"
    /\ mainPc = "consuming"
    /\ mainPc' = "abandoned"
    /\ UNCHANGED <<envVars, ctxVars, mreq, ret, fanVars>>

Next ==
    \/ \E reason \in CancelReasons : Cancel(reason)
    \/ Call
    \/ \E outcome \in Outcomes : Return(outcome)
    \/ \E outcome \in Outcomes : Listed(outcome)
    \/ Spawn
    \/ WaitAndClose
    \/ \E i \in Names : Fetch(i)
    \/ \E i \in Names, outcome \in Outcomes : Fetched(i, outcome)
    \/ \E i \in Names : Send(i)
    \/ \E i \in Names : Done(i)
    \/ Receive
    \/ ReceiveClosed
    \/ Abandon

Spec == Init /\ [][Next]_vars

\* The fan-out under fair scheduling.  A call of GetClusters or
\* GetClustersSync, with a context that is live or already cancelled when the
\* call is made.
FairInit ==
    /\ InitCall
    /\ op \in FanOutOps
    /\ payload = DefaultStatus
    /\ translated = NilCluster

\* The caller's context was cancelled before the call.
CancelledBefore == mainPc = "start" /\ Cancel("context canceled")

FairNext ==
    \/ CancelledBefore
    \/ Call
    \/ \E outcome \in Outcomes : Listed(outcome)
    \/ Spawn
    \/ WaitAndClose
    \/ \E i \in Names : Fetch(i)
    \/ \E i \in Names, outcome \in Outcomes : Fetched(i, outcome)
    \/ \E i \in Names : Send(i)
    \/ \E i \in Names : Done(i)
    \/ Receive
    \/ ReceiveClosed
    \/ Abandon

\* The Go scheduler runs every goroutine that can take a step, and the
\* transport eventually answers every request; the consumer owes nothing.
Fairness ==
    /\ WF_vars(Spawn)
    /\ WF_vars(WaitAndClose)
    /\ \A i \in Names :
          /\ WF_vars(Fetch(i))
          /\ WF_vars(\E outcome \in Outcomes : Fetched(i, outcome))
          /\ WF_vars(Send(i))
          /\ WF_vars(Done(i))

FairSpec == FairInit /\ [][FairNext]_vars /\ Fairness

----------------------------------------------------------------------------
\* The topology translation on its own: newCluster applied to every payload.

TransInit ==
    /\ InitCall
    /\ op = "GetCluster"
    /\ arg = 1
    /\ payload \in Payloads
    /\ translated = NilCluster

\* cluster := newCluster(clusterState)
Translate ==
    /\ translated = NilCluster
    /\ translated' = newCluster(payload)
    /\ UNCHANGED <<op, arg, numCPU, serverNames, payload, ctxVars, mainPc,
                   mreq, ret, fanVars>>

TransNext == Translate

TransSpec == TransInit /\ [][TransNext]_vars

TypeOK ==
    /\ op \in Ops
    /\ wg \in 0..MaxNames
    /\ Len(results.buf) <= MaxNames

----------------------------------------------------------------------------
\* Properties

Launched == 1..Len(clusterNames)
GetClustersReturned ==
    op \in FanOutOps /\ mainPc \in {"consuming", "returned", "abandoned"}
ListingOk == GetClustersReturned /\ listErr = NoErr
ListingFailed == GetClustersReturned /\ listErr # NoErr
\* The number of GetCluster requests handed to the transport and not yet back.
InFlight == Cardinality({i \in Names : task[i].pc = "inflight"})
\* The lowest-level failure of an error, without the wrapped contexts.
Cause(e) == [e EXCEPT !.wrap = <<>>]
IsSuccess(r) == r.Error = NoErr

\* C1: when the name listing returned N names, a consumer that keeps
\* receiving from the channel of GetClusters never holds more than N results,
\* and holds exactly N of them when it finds the channel closed.
C1_ExactlyNResults ==
    (op = "GetClusters" /\ ListingOk) =>
        /\ Len(received) <= Len(clusterNames)
        /\ mainPc = "returned" => Len(received) = Len(clusterNames)

\* A drained and closed stream that carried successes and failures.
C1_Witness ==
    /\ op = "GetClusters" /\ ListingOk /\ mainPc = "returned"
    /\ \E i, j \in 1..Len(received) :
          IsSuccess(received[i]) /\ ~IsSuccess(received[j])

\* C2: the number of GetCluster calls simultaneously in flight never exceeds
\* W = min(5, NumCPU).
C2_WidthBound == InFlight <= Concurrency(numCPU)

\* C3: when the name listing returned N names, GetClustersSync returns either
\* a list of exactly N clusters and no error, or an error and no list.
C3_AllOrOneFailure ==
    (op = "GetClustersSync" /\ ListingOk /\ mainPc = "returned") =>
        \/ /\ ret.err = NoErr
           /\ ~ret.listNil
           /\ Len(ret.list) = Len(clusterNames)
           /\ \A k \in 1..Len(ret.list) : ret.list[k] # NilCluster
        \/ /\ ret.err # NoErr
           /\ ret.listNil
           /\ ret.list = <<>>

\* GetClustersSync failed fast after it had already accumulated a cluster.
C3_Witness ==
    /\ op = "GetClustersSync" /\ ListingOk /\ mainPc = "returned"
    /\ ret.err # NoErr
    /\ Len(clusters) >= 1

\* C4: when the name listing succeeded, the channel is closed only once every
\* launched fetch goroutine has sent its result and finished; every result
\* is then in the buffer or with the consumer.
C4_CloseAfterAllSends ==
    (ListingOk /\ results.closed) =>
        /\ \A i \in Launched : task[i].pc = "done"
        /\ Len(received) + Len(results.buf) = Len(clusterNames)
        /\ ~panicked

\* The channel was closed after at least two fetches.
C4_Witness ==
    ListingOk /\ results.closed /\ Len(clusterNames) >= 2

\* C5: once GetClustersSync has returned on the first failure, no fetch
\* goroutine is blocked on its send: nobody receives any more, so a sender
\* that finds the buffer full at that point stays blocked forever and the
\* channel is never closed.
C5_NoSenderBlockedForever ==
    (op = "GetClustersSync" /\ mainPc = "returned" /\ ret.err # NoErr) =>
        \A i \in Names :
            ~(task[i].pc = "send" /\ Len(results.buf) = results.cap)

\* C6: when the name listing fails, GetClustersSync returns a failure.
C6_SyncSurfacesListingFailure ==
    (op = "GetClustersSync" /\ ListingFailed /\ mainPc = "returned") =>
        ret.err # NoErr

\* C7: a single-resource operation called with a context that is already
\* cancelled fails with the context's error.
C7_CancelledBeforeCallFails ==
    (op \notin FanOutOps /\ mainPc = "returned" /\ mreq.ctxAtIssue) =>
        Cause(ret.err) = CtxErr(ctxErr)

\* C8: when the context is cancelled and no fetch has completed yet, every
\* fetch that completes from then on resolves as Cancelled.
C8_FetchesResolveCancelled ==
    [][(ctxDone /\ \A j \in Names : ~FetchCompleted(task[j])) =>
          \A i \in Names :
              FetchCompleted(task'[i]) =>
                  task'[i].res.Error.kind = "Cancelled"]_vars

\* C9: when the name listing fails, GetClusters starts no goroutine and
\* returns a channel that is closed (once) and empty, from which nothing is
\* ever received.
C9_ListingFailureClosedEmpty ==
    ListingFailed =>
        /\ orchPc = "none"
        /\ \A i \in Names : task[i].pc = "idle"
        /\ wg = 0
        /\ results.closed
        /\ results.buf = <<>>
        /\ received = <<>>
        /\ closeCount = 1
        /\ ~panicked

\* The consumer found the channel of a failed listing closed.
C9_Witness ==
    op = "GetClusters" /\ ListingFailed /\ mainPc = "returned"

\* C10: when httpClient.Do fails, do and AddCluster report ctx.Err() if the
\* context is cancelled at that moment, and the transport error otherwise.
C10_CancelOverTransportError ==
    [][LET expected == IF ctxDone THEN CtxErr(ctxErr) ELSE TransportErr
       IN  /\ \A i \in Names :
                 (task[i].pc = "inflight" /\ task'[i].outcome = "err") =>
                     Cause(task'[i].res.Error) = expected
           /\ (mainPc = "inflight" /\ mreq'.outcome = "err") =>
                 Cause(ret'.err) = expected
           /\ (mainPc = "listing" /\ mreq'.outcome = "err") =>
                 Cause(listErr') = expected]_vars

\* AddCluster's transport call failed with the context cancelled, and the
\* caller got the context's error.
C10_Witness ==
    /\ op = "AddCluster" /\ mainPc = "returned"
    /\ mreq.outcome = "err"
    /\ ctxDone
    /\ ret.err = CtxErr(ctxErr)

\* C11: every failure a single-resource operation returns is wrapped with a
\* context, which names the cluster for the per-cluster operations.
C11_FailuresWrapped ==
    (op \notin FanOutOps /\ mainPc = "returned" /\ ret.err # NoErr) =>
        /\ Len(ret.err.wrap) >= 1
        /\ ret.err.wrap[1].name = arg

\* Every result handed to the channel so far, oldest first.
Delivered == received \o results.buf
SentBy(i) == \E k \in 1..Len(Delivered) : Delivered[k] = task[i].res

\* C12: the channel holds at most W results; a fetch goroutine that has
\* passed its send has its result on the channel or with the consumer; and
\* a goroutine that finds the buffer full stays where it is.
C12_BoundedBlockingChannel ==
    /\ [](GetClustersReturned =>
            /\ results.cap = Concurrency(numCPU)
            /\ Len(results.buf) <= results.cap
            /\ \A i \in Names : task[i].pc \in {"sent", "done"} => SentBy(i))
    /\ [][\A i \in Names :
            (task[i].pc = "send" /\ Len(results.buf) >= results.cap) =>
                task'[i] = task[i]]_vars

\* A goroutine is blocked on a full buffer behind the result of a sibling.
C12_Witness ==
    \E i, j \in Names :
        /\ task[i].pc = "send"
        /\ task[j].pc \in {"sent", "done"}
        /\ Len(results.buf) = results.cap

\* The cluster a result is about: the cluster it carries, or the name its
\* failure is wrapped with.
ResultName(r) ==
    IF IsSuccess(r) THEN r.Cluster.Name
    ELSE IF Len(r.Error.wrap) >= 1 THEN r.Error.wrap[1].name ELSE 0
ResultsFor(name) == {k \in 1..Len(Delivered) : ResultName(Delivered[k]) = name}

\* C13: in the streaming form every listed name gets one fetch and at most
\* one result, which carries its cluster or a failure naming it according to
\* how its fetch ended; once the stream is drained every name has exactly
\* one, whatever happened to its siblings.
C13_OneResultPerName ==
    (op = "GetClusters" /\ ListingOk) =>
        /\ \A i \in Launched :
              /\ Cardinality(ResultsFor(clusterNames[i])) <= 1
              /\ FetchCompleted(task[i]) =>
                    /\ ResultName(task[i].res) = clusterNames[i]
                    /\ IsSuccess(task[i].res) <=> task[i].outcome = "valid"
              /\ mainPc = "returned" =>
                    Cardinality(ResultsFor(clusterNames[i])) = 1
        /\ \A k \in 1..Len(Delivered) :
              \E i \in Launched : ResultName(Delivered[k]) = clusterNames[i]

\* Names [1,2,3], only the fetch of 2 failed at transport level: the drained
\* stream holds two successes and one failure naming 2.
C13_Witness ==
    /\ op = "GetClusters" /\ ListingOk /\ mainPc = "returned"
    /\ clusterNames = <<1, 2, 3>>
    /\ task[2].outcome = "err"
    /\ IsSuccess(task[1].res) /\ IsSuccess(task[3].res)
    /\ Len(received) = 3
    /\ \E k \in 1..3 : ~IsSuccess(received[k]) /\ ResultName(received[k]) = 2

\* C14: every result GetClustersSync receives before a failure is a success;
\* on receiving a failure it returns that failure and no list, and receives
\* nothing more.
C14_FirstFailureWins ==
    /\ [](op = "GetClustersSync" =>
            /\ \A k \in 1..Len(received) :
                  k < Len(received) => IsSuccess(received[k])
            /\ (Len(received) >= 1 /\ ~IsSuccess(received[Len(received)])) =>
                  /\ mainPc = "returned"
                  /\ ret.err = received[Len(received)].Error
                  /\ ret.listNil)
    /\ [][(op = "GetClustersSync" /\ mainPc = "returned") =>
            (received' = received /\ ret' = ret)]_vars

\* GetClustersSync returned a failure after a success, with a further result
\* left unreceived in the buffer.
C14_Witness ==
    /\ op = "GetClustersSync" /\ mainPc = "returned"
    /\ ret.err # NoErr
    /\ Len(received) >= 2
    /\ Len(results.buf) >= 1

\* C15: the process never panics: no fetch goroutine is left to send once
\* the channel is closed, and the channel is closed at most once, whether
\* the consumer drains the channel, lags behind or has walked away.
C15_NoSendAfterCloseNoDoubleClose ==
    /\ ~panicked
    /\ closeCount <= 1
    /\ results.closed =>
          /\ closeCount = 1
          /\ orchPc # "loop"
          /\ \A i \in Names : task[i].pc \in {"idle", "sent", "done"}

\* The channel was closed behind a consumer that had walked away, after the
\* failed fetch of one cluster and the successful fetch of another.
C15_Witness ==
    /\ mainPc = "abandoned"
    /\ results.closed
    /\ \E i, j \in Launched :
          /\ task[i].pc = "done" /\ ~IsSuccess(task[i].res)
          /\ task[j].pc = "done" /\ IsSuccess(task[j].res)

\* C17: once do or AddCluster has returned, the body of the response it
\* obtained is closed, however the call ended.
C17_ResponseReleased ==
    /\ mainPc \notin {"start", "inflight", "listing"} => ~mreq.open
    /\ \A i \in Names : FetchCompleted(task[i]) => ~task[i].open

\* do returned a decode failure for a response that arrived after the context
\* had been cancelled.
C17_Witness ==
    /\ op = "GetCluster" /\ mainPc = "returned"
    /\ mreq.outcome = "invalid"
    /\ ctxDone
    /\ ret.err # NoErr

\* The operations that hand do a decode target (v != nil).
HasTarget(o) == o \in {"GetClusterNames", "GetCluster"}

\* C18: the body is decoded exactly when a decode target is supplied and the
\* body is not empty: an empty body with a target, or any body without a
\* target, is a success; an undecodable body with a target is a Decode
\* failure.
C18_DecodeOnlyNonEmptyBody ==
    (op \in {"GetClusterNames", "GetCluster", "DeleteCluster"}
        /\ mainPc = "returned") =>
        /\ (HasTarget(op) /\ mreq.outcome = "empty") => ret.err = NoErr
        /\ (~HasTarget(op) /\ mreq.outcome # "err") => ret.err = NoErr
        /\ (HasTarget(op) /\ mreq.outcome = "invalid") =>
              ret.err.kind = "Decode"
        /\ (HasTarget(op) /\ mreq.outcome = "valid") => ret.err = NoErr

\* An EndpointState carries every field of its endpointStatus.
EndpointCopied(raw, ep) ==
    /\ ep.Endpoint = raw.endpoint
    /\ ep.DataCenter = raw.dc
    /\ ep.Rack = raw.rack
    /\ ep.HostId = raw.hostId
    /\ ep.Status = raw.status
    /\ ep.Severity = raw.severity
    /\ ep.ReleaseVersion = raw.releaseVersion
    /\ ep.Tokens = raw.tokens
    /\ ep.Load = raw.load

\* C19: newCluster returns a Cluster with one GossipState per source node of
\* the payload, in source order, each with exactly the node's datacenter
\* keys, each datacenter with exactly its rack keys, each rack with its
\* endpoints in source order and every field copied; the name, the JMX
\* username, the password flag and the seeds are copied unchanged.
C19_TranslationPreservesShape ==
    translated # NilCluster =>
        LET src == payload.nodes_status.endpointStates
            gss == translated.NodeState.GossipStates
        IN  /\ translated.Name = payload.name
            /\ translated.JmxUsername = payload.jmx_username
            /\ translated.JmxPasswordSet = payload.jmx_password_is_set
            /\ translated.Seeds = payload.seed_hosts
            /\ Len(gss) = Len(src)
            /\ \A i \in 1..Len(src) :
                  /\ gss[i].SourceNode = src[i].sourceNode
                  /\ gss[i].EndpointNames = src[i].endpointNames
                  /\ gss[i].TotalLoad = src[i].totalLoad
                  /\ DOMAIN gss[i].DataCenters = DOMAIN src[i].Endpoints
                  /\ \A dc \in DOMAIN src[i].Endpoints :
                        LET raw == src[i].Endpoints[dc]
                            dcs == gss[i].DataCenters[dc]
                        IN  /\ dcs.Name = dc
                            /\ DOMAIN dcs.Racks = DOMAIN raw
                            /\ \A r \in DOMAIN raw :
                                  /\ dcs.Racks[r].Name = r
                                  /\ Len(dcs.Racks[r].Endpoints) = Len(raw[r])
                                  /\ \A k \in 1..Len(raw[r]) :
                                        EndpointCopied(raw[r][k],
                                            dcs.Racks[r].Endpoints[k])

\* A translated payload of two source nodes with different topologies, one
\* of them with two datacenters and a rack of two endpoints.
C19_Witness ==
    /\ translated # NilCluster
    /\ Len(payload.nodes_status.endpointStates) = 2
    /\ payload.nodes_status.endpointStates[1]
          # payload.nodes_status.endpointStates[2]
    /\ LET m == payload.nodes_status.endpointStates[2].Endpoints
       IN  /\ DOMAIN m = DataCenterKeys
           /\ \E r \in DOMAIN m["dc1"] : Len(m["dc1"][r]) = 2

\* The consumer has stopped receiving for good.
Stopped ==
    \/ mainPc = "abandoned"
    \/ op = "GetClustersSync" /\ mainPc = "returned" /\ ret.err # NoErr
\* The results the consumer has not received.
Unreceived == Len(clusterNames) - Len(received)
AllFetchesDone == \A i \in Launched : task[i].pc = "done"
BlockedOnSend(i) == task[i].pc = "send" /\ Len(results.buf) >= results.cap

\* C16: when the consumer stops receiving with at most W results unreceived,
\* every fetch goroutine finishes and the channel is closed; a goroutine is
\* blocked on its send behind a stopped consumer only when more than W
\* results were unreceived.
C16_SmallRemainderDrains ==
    /\ (ListingOk /\ Stopped /\ Unreceived <= Concurrency(numCPU))
          ~> (AllFetchesDone /\ results.closed)
    /\ []((ListingOk /\ Stopped /\ \E i \in Names : BlockedOnSend(i)) =>
             Unreceived > Concurrency(numCPU))

\* GetClustersSync returned on a failure with two results unreceived and
\* room for both; both fetches finished and the channel was closed.
C16_Witness ==
    /\ op = "GetClustersSync" /\ ListingOk /\ Stopped
    /\ Unreceived = 2
    /\ Concurrency(numCPU) = 2
    /\ AllFetchesDone /\ results.closed

====
